---- MODULE Spec2Model ----
(***************************************************************************)
(* A model of notehub.py, the wrapper for the Notehub.org API: the client  *)
(* instance (pid, psk, version), its three public methods get_note,        *)
(* create_note and update_note, the shared _request handler, and the      *)
(* HTTP transport it talks to (the requests library, stubbed by the unit   *)
(* tests).                                                                 *)
(*                                                                         *)
(* Text is a sequence of characters.  A character is a one-character       *)
(* string; "e'" stands for U+00E9, the one non-ASCII character of the      *)
(* model, whose UTF-8 encoding is two bytes.                               *)
(***************************************************************************)
EXTENDS Integers, Sequences, FiniteSets, TLC

(***************************************************************************)
(* Bounds of the model.                                                    *)
(***************************************************************************)
\* longest note text passed to create_note / update_note
MaxLen == 1
\* width in bits of the digest standing in for the 128 bits of MD5
HashBits == 16
\* number of notes the note service stores
MaxNotes == 2
\* number of calls that are counted
MaxCalls == 2

(***************************************************************************)
(* Text.                                                                   *)
(***************************************************************************)
\* characters callers build their texts from
Alphabet == {"e'"}

RECURSIVE StringsUpTo(_)
StringsUpTo(n) ==
    IF n = 0 THEN {<<>>}
    ELSE LET shorter == StringsUpTo(n - 1)
         IN  shorter \cup {Append(s, c) : s \in {t \in shorter : Len(t) = n - 1}, c \in Alphabet}

\* str.encode('utf-8') of one character: the bytes of its UTF-8 encoding
Utf8Char(c) ==
    CASE c = "0" -> <<48>>  [] c = "1" -> <<49>>  [] c = "2" -> <<50>>
      [] c = "3" -> <<51>>  [] c = "4" -> <<52>>  [] c = "5" -> <<53>>
      [] c = "6" -> <<54>>  [] c = "7" -> <<55>>  [] c = "8" -> <<56>>
      [] c = "9" -> <<57>>  [] c = "a" -> <<97>>  [] c = "b" -> <<98>>
      [] c = "c" -> <<99>>  [] c = "d" -> <<100>> [] c = "e" -> <<101>>
      [] c = "f" -> <<102>> [] c = "k" -> <<107>> [] c = "p" -> <<112>>
      [] c = "s" -> <<115>> [] c = "x" -> <<120>>
      [] c = "e'" -> <<195, 169>>

\* str.encode('utf-8'): the concatenation of the characters' encodings
RECURSIVE encode(_)
encode(s) == IF s = <<>> THEN <<>> ELSE Utf8Char(Head(s)) \o encode(Tail(s))

\* the digest of a byte string: a HashBits-wide stand-in for hashlib.md5,
\* folding every byte, in order, into the running value
RECURSIVE md5fold(_, _)
md5fold(bytes, h) ==
    IF bytes = <<>> THEN h
    ELSE md5fold(Tail(bytes), (h * 33 + Head(bytes)) % (2 ^ HashBits))

md5(bytes) == md5fold(bytes, 5381 % (2 ^ HashBits))

HexDigits == <<"0", "1", "2", "3", "4", "5", "6", "7",
               "8", "9", "a", "b", "c", "d", "e", "f">>

\* number of hexadecimal digits of a digest
HexLen == (HashBits + 3) \div 4

\* the n low hexadecimal digits of v, most significant first, zero padded
RECURSIVE hexfmt(_, _)
hexfmt(v, n) ==
    IF n = 0 THEN <<>>
    ELSE Append(hexfmt(v \div 16, n - 1), HexDigits[(v % 16) + 1])

\* md5(...).hexdigest(): the digest as lowercase hexadecimal text
hexdigest(digest) == hexfmt(digest, HexLen)

\* md5(text.encode('utf-8')).hexdigest(), as the wrapper always calls it
md5hex(text) == hexdigest(md5(encode(text)))

\* str(n) for a non-negative integer: its decimal digits
RECURSIVE str(_)
str(n) ==
    IF n < 10 THEN <<HexDigits[n + 1]>>
    ELSE Append(str(n \div 10), HexDigits[(n % 10) + 1])

\* needle in hay, for texts
Contains(hay, needle) ==
    \E i \in 0..(Len(hay) - Len(needle)) :
        SubSeq(hay, i + 1, i + Len(needle)) = needle

(***************************************************************************)
(* JSON values, as req.json() hands them to the wrapper.                   *)
(***************************************************************************)
JNull == [t |-> "null"]
JBool(b) == [t |-> "bool", v |-> b]
JNum(n) == [t |-> "num", v |-> n]
JStr(s) == [t |-> "str", v |-> s]
JArr(s) == [t |-> "arr", v |-> s]
JObj(f) == [t |-> "obj", v |-> f]

\* texts of the messages the service puts in a status
BadNoteID == <<"B", "a", "d", " ", "n", "o", "t", "e", "I", "D", ".">>
BadPID == <<"B", "a", "d", " ", "P", "I", "D", ".">>

StatusOk == JObj([success |-> JBool(TRUE), message |-> JStr(<<>>)])
StatusFailed(m) == JObj([success |-> JBool(FALSE), message |-> JStr(m)])

(***************************************************************************)
(* What the transport can answer: requests.get/post/put either raises (a   *)
(* requests exception is an IOError) or returns a response with a          *)
(* status_code and a json() accessor that decodes the body or raises       *)
(* ValueError.                                                             *)
(***************************************************************************)
IOFailure(text) == [kind |-> "ioerror", text |-> text]
Undecodable(text) == [decodes |-> FALSE, err |-> text]
Decoded(j) == [decodes |-> TRUE, json |-> j]
HttpResponse(code, body) == [kind |-> "http", status_code |-> code, body |-> body]

\* requests.codes.ok
codes_ok == 200

\* Notehub.BASE_URL
BASE_URL == "http://notehub.org/api/note"

(***************************************************************************)
(* Python's outcomes: a call returns a value or raises an exception.       *)
(***************************************************************************)
Return(v) == [kind |-> "return", value |-> v]
Raise(exc, msg) == [kind |-> "raise", exc |-> exc, msg |-> msg]

\* str(KeyError(k)): the repr of the missing key
KeyErrorText(k) ==
    CASE k = "status" -> <<"'", "s", "t", "a", "t", "u", "s", "'">>
      [] k = "success" -> <<"'", "s", "u", "c", "c", "e", "s", "s", "'">>
      [] k = "message" -> <<"'", "m", "e", "s", "s", "a", "g", "e", "'">>

\* x[k] for a string key k: only a dict can be subscripted by a string, and
\* only by a key it has
Subscript(x, k) ==
    IF x.t = "obj"
    THEN IF k \in DOMAIN x.v THEN Return(x.v[k])
         ELSE Raise("KeyError", KeyErrorText(k))
    ELSE Raise("TypeError", <<>>)

\* x != True, with Python's equality: the integer 1 equals True
NotEqualsTrue(x) ==
    ~ \/ (x.t = "bool" /\ x.v = TRUE)
      \/ (x.t = "num" /\ x.v = 1)

\* del d[k] left out: the mapping keeps the key
DelKey_kept(d, k) == d

\* del d[k]
DelKey(d, k) == JObj([key \in (DOMAIN d.v) \ {k} |-> d.v[key]])

NonOkPrefix ==
    <<"S", "e", "r", "v", "e", "r", " ", "r", "e", "t", "u", "r", "n", "e", "d", " ",
      "n", "o", "n", "-", "2", "0", "0", " ", "r", "e", "s", "p", "o", "n", "s", "e", " ",
      "c", "o", "d", "e", ":", " ">>

NonSuccessPrefix ==
    <<"N", "o", "n", " ", "s", "u", "c", "c", "e", "s", "s", "f", "u", "l", " ",
      "s", "t", "a", "t", "u", "s", ":", " ">>

\* the except clause of _request: IOError, KeyError and ValueError are
\* wrapped in a NotehubError carrying str(e); anything else propagates
ExceptClause(o) ==
    IF o.kind = "raise" /\ o.exc \in {"IOError", "KeyError", "ValueError"}
    THEN Raise("NotehubError", o.msg)
    ELSE o

\* the raise of a failure status with the service's message left out
RaiseNonSuccess_bare(message) ==
    IF message.t = "str"
    THEN Raise("NotehubError", NonSuccessPrefix)
    ELSE Raise("TypeError", <<>>)

\* the raise of a failure status: 'Non successful status: ' + message
RaiseNonSuccess(message) ==
    IF message.t = "str"
    THEN Raise("NotehubError", NonSuccessPrefix \o message.v)
    ELSE Raise("TypeError", <<>>)

\* the status check of a decoded body and the removal of its status
CheckStatus(resp) ==
    LET status == Subscript(resp, "status") IN
    IF status.kind = "raise" THEN status
    ELSE LET success == Subscript(status.value, "success") IN
         IF success.kind = "raise" THEN success
         ELSE IF NotEqualsTrue(success.value)
              THEN LET message == Subscript(status.value, "message") IN
                   IF message.kind = "raise" THEN message
                   ELSE RaiseNonSuccess(message.value)
              ELSE Return(DelKey(resp, "status"))

\* the try block with the body parsed and checked before the response code
TryBlock_parse_first(tr) ==
    IF tr.kind = "ioerror" THEN Raise("IOError", tr.text)
    ELSE IF ~ tr.body.decodes THEN Raise("ValueError", tr.body.err)
         ELSE LET checked == CheckStatus(tr.body.json) IN
              IF checked.kind = "raise" THEN checked
              ELSE IF tr.status_code # codes_ok
                   THEN Raise("NotehubError", NonOkPrefix \o str(tr.status_code))
                   ELSE checked

\* the body of the try block of _request, given what the transport answered
TryBlock(tr) ==
    IF tr.kind = "ioerror" THEN Raise("IOError", tr.text)
    ELSE IF tr.status_code # codes_ok
         THEN Raise("NotehubError", NonOkPrefix \o str(tr.status_code))
         ELSE IF ~ tr.body.decodes THEN Raise("ValueError", tr.body.err)
              ELSE CheckStatus(tr.body.json)

\* Notehub._request: what the call returns or raises
request_outcome(tr) == ExceptClause(TryBlock(tr))

\* Notehub._request: the HTTP request it makes
request_sent(method, params, data) ==
    IF method = "GET"
    THEN [method |-> "GET", url |-> BASE_URL, params |-> params]
    ELSE IF method = "POST"
         THEN [method |-> "POST", url |-> BASE_URL, data |-> data]
         ELSE [method |-> "PUT", url |-> BASE_URL, data |-> data]

(***************************************************************************)
(* The methods' request construction.  self is the instance: a record of   *)
(* its pid, psk and version.                                               *)
(***************************************************************************)
\* the signature with the secret key put before the publisher ID
get_signature_swapped(self, text) == md5hex(self.psk \o self.pid \o text)

\* Notehub._get_signature
get_signature(self, text) == md5hex(self.pid \o self.psk \o text)

\* get_note with the API version sent as the note ID
get_note_params_version(self, note_id) ==
    [noteID |-> self.version, version |-> self.version]

\* get_note: the query parameters
get_note_params(self, note_id) ==
    [noteID |-> note_id, version |-> self.version]

\* create_note sending the password as given
create_note_data_plain(self, note_text, password) ==
    LET data == [note |-> note_text,
                 pid |-> self.pid,
                 signature |-> get_signature(self, note_text),
                 version |-> self.version]
    IN  IF password # <<>>
        THEN [password |-> password] @@ data
        ELSE data

\* create_note: the form data
create_note_data(self, note_text, password) ==
    LET data == [note |-> note_text,
                 pid |-> self.pid,
                 signature |-> get_signature(self, note_text),
                 version |-> self.version]
    IN  IF password # <<>>
        THEN [password |-> md5hex(password)] @@ data
        ELSE data

\* update_note sending the password as given
update_note_data_plain(self, note_id, new_note_text, password) ==
    [noteId |-> note_id,
     note |-> new_note_text,
     pid |-> self.pid,
     signature |-> get_signature(self, note_id \o new_note_text \o md5hex(password)),
     password |-> password,
     version |-> self.version]

\* update_note signing the new text before the note ID
update_note_data_reordered(self, note_id, new_note_text, password) ==
    LET encoded_password == md5hex(password) IN
    [noteId |-> note_id,
     note |-> new_note_text,
     pid |-> self.pid,
     signature |-> get_signature(self, new_note_text \o note_id \o encoded_password),
     password |-> encoded_password,
     version |-> self.version]

\* update_note: the form data
update_note_data(self, note_id, new_note_text, password) ==
    LET encoded_password == md5hex(password) IN
    [noteId |-> note_id,
     note |-> new_note_text,
     pid |-> self.pid,
     signature |-> get_signature(self, note_id \o new_note_text \o encoded_password),
     password |-> encoded_password,
     version |-> self.version]

(***************************************************************************)
(* The inputs callers and the stubbed transport supply.                    *)
(***************************************************************************)
Texts == StringsUpTo(MaxLen)

\* the IDs the service assigns, in the order it assigns them
NoteIds == {str(k) : k \in 1..MaxNotes}

Passwords == {<<>>, <<"s">>}

Pids == {<<"p">>, <<"p", "k">>}
Psks == {<<>>, <<"k">>}
\* '1.1', the default of the constructor, and another version
DefaultVersion == <<"1", ".", "1">>
Versions == {DefaultVersion, <<"1", ".", "0">>}

\* keyword arguments of a call: a mapping from argument names to texts
NoKw == [k \in {} |-> <<>>]
PasswordKw == {NoKw} \cup {[password |-> p] : p \in Passwords}
DisplayKw ==
    {NoKw,
     [theme |-> <<"s">>],
     [theme |-> <<"s">>, text_font |-> <<"a">>, header_font |-> <<"c">>]}

\* a body that decodes to a success
SuccessBody ==
    Decoded(JObj([status |-> StatusOk, noteID |-> JStr(<<"1">>), longURL |-> JStr(<<"u">>)]))

\* bodies the stubbed json() returns
JsonBodies ==
    {SuccessBody.json,
     JObj([status |-> StatusFailed(BadNoteID), note |-> JStr(<<"a">>)]),
     JObj([status |-> JNull, note |-> JStr(<<"a">>)]),
     JObj([status |-> JStr(<<"a">>)]),
     JObj([note |-> JStr(<<"a">>)]),
     JObj([status |-> JObj([message |-> JStr(<<"a">>)])]),
     JObj([status |-> JObj([success |-> JBool(TRUE)]), note |-> JStr(<<"a">>)]),
     JObj([status |-> JObj([success |-> JBool(FALSE)])]),
     JObj([status |-> JObj([success |-> JBool(FALSE), message |-> JNull])]),
     JObj([status |-> JObj([success |-> JNum(1), message |-> JStr(<<>>)]), note |-> JStr(<<"a">>)]),
     JArr(<<>>)}

Bodies == {Undecodable(<<"x">>)} \cup {Decoded(j) : j \in JsonBodies}

\* what the stubbed transport answers: a failure to connect, a 200 with any
\* of the bodies, or another status code
Transports ==
    {IOFailure(<<"x">>)}
      \cup {HttpResponse(200, b) : b \in Bodies}
      \cup {HttpResponse(404, b) : b \in {SuccessBody, Undecodable(<<"x">>)}}
      \cup {HttpResponse(500, Decoded(JObj([status |-> StatusFailed(BadPID)])))}

(***************************************************************************)
(* The note service behind the endpoint: it knows one publisher, stores    *)
(* the note of every POST it accepts under a fresh ID, answers a GET with  *)
(* the stored text and lets a PUT that carries the note's password replace *)
(* the text.                                                               *)
(***************************************************************************)
SvcPid == <<"p">>
SvcPsk == <<"k">>

ServiceAccepts(req, store) ==
    CASE req.method = "GET" -> req.params.noteID \in DOMAIN store
      [] req.method = "POST" ->
            /\ req.data.pid = SvcPid
            /\ req.data.signature = md5hex(SvcPid \o SvcPsk \o req.data.note)
      [] req.method = "PUT" ->
            /\ req.data.noteId \in DOMAIN store
            /\ req.data.pid = SvcPid
            /\ req.data.signature =
                 md5hex(SvcPid \o SvcPsk \o req.data.noteId \o req.data.note \o req.data.password)
            /\ store[req.data.noteId].password = <<req.data.password>>

FreshId(store) == str(Cardinality(DOMAIN store) + 1)

\* the notes stored once the request is served
ServiceStore(req, store, accepted) ==
    IF ~ accepted \/ req.method = "GET" THEN store
    ELSE IF req.method = "POST"
         THEN (FreshId(store) :>
                 [note |-> req.data.note,
                  password |-> IF "password" \in DOMAIN req.data
                               THEN <<req.data.password>> ELSE <<>>]) @@ store
         ELSE [store EXCEPT ![req.data.noteId].note = req.data.note]

\* the response to the request
ServiceAnswer(req, store, accepted) ==
    HttpResponse(200, Decoded(
        IF ~ accepted
        THEN JObj([status |-> StatusFailed(IF req.method = "GET" THEN BadNoteID ELSE BadPID)])
        ELSE IF req.method = "GET"
             THEN JObj([status |-> StatusOk,
                        note |-> JStr(store[req.params.noteID].note),
                        longURL |-> JStr(<<"/">> \o req.params.noteID)])
             ELSE IF req.method = "POST"
                  THEN JObj([status |-> StatusOk,
                             noteID |-> JStr(FreshId(store)),
                             longURL |-> JStr(<<"/">> \o FreshId(store))])
                  ELSE JObj([status |-> StatusOk,
                             longURL |-> JStr(<<"/">> \o req.data.noteId)])))

(***************************************************************************)
(* State.                                                                  *)
(***************************************************************************)
VARIABLES
    pid,        \* self.pid
    psk,        \* self.psk
    version,    \* self.version
    call,       \* the latest call of a method: its arguments, and the
                \* instance's fields when it was made
    request,    \* the HTTP request that call made, if it made one
    response,   \* what the transport answered to it
    outcome,    \* what the call returned or raised
    notes,      \* the notes the service stores, by note ID
    default_params, \* the mapping that is the default of _request's params
    default_data,   \* the mapping that is the default of _request's data
    calls,      \* the number of calls counted so far
    sent        \* the number of HTTP requests made by the counted calls

vars == <<pid, psk, version, call, request, response, outcome, notes,
          default_params, default_data, calls, sent>>

NoCall == [op |-> "none"]
NoRequest == [method |-> "none"]
NoResponse == [kind |-> "none"]
NoOutcome == [kind |-> "none"]

Self == [pid |-> pid, psk |-> psk, version |-> version]

\* Notehub(pid, psk, version='1.1')
Init ==
    /\ pid \in Pids
    /\ psk \in Psks
    /\ version \in Versions
    /\ call = NoCall
    /\ request = NoRequest
    /\ response = NoResponse
    /\ outcome = NoOutcome
    /\ notes = [id \in {} |-> NoCall]
    /\ default_params = NoKw
    /\ default_data = NoKw
    /\ calls = 0
    /\ sent = 0

(***************************************************************************)
(* The two transports: the stub of the unit tests, which answers anything, *)
(* and the note service.  Each gives the answers to a request together with *)
(* the notes the service stores afterwards.                                 *)
(***************************************************************************)
Stub(req) == {[answer |-> tr, notes |-> notes] : tr \in Transports}

\* the service stores at most MaxNotes notes: a POST that would add one more
\* is not made
Service(req) ==
    LET accepted == ServiceAccepts(req, notes)
        stored == ServiceStore(req, notes, accepted)
    IN  IF Cardinality(DOMAIN stored) > MaxNotes THEN {}
        ELSE {[answer |-> ServiceAnswer(req, notes, accepted), notes |-> stored]}

\* the answers of the transport t, "stub" or "service"
Answers(t, req) == IF t = "stub" THEN Stub(req) ELSE Service(req)

\* _request keeping in its default mappings the fields it was given
defaults_left_filled(params, data) ==
    [params |-> params @@ default_params, data |-> data @@ default_data]

\* the default mappings of _request after a call of it with these params and
\* data: it assigns to no key of either
defaults_left(params, data) ==
    [params |-> default_params, data |-> default_data]

\* the params and the data _request is called with: the caller's mapping, or
\* the default mapping for the one the caller leaves out
Passed(req) ==
    [params |-> IF "params" \in DOMAIN req THEN req.params ELSE default_params,
     data |-> IF "data" \in DOMAIN req THEN req.data ELSE default_data]

\* a call whose arguments bind: the method builds its request and hands it
\* to _request, which makes it over the transport t and checks the answer
Exchange(c, req, t) ==
    \E a \in Answers(t, req) :
        /\ call' = c
        /\ request' = req
        /\ response' = a.answer
        /\ outcome' = request_outcome(a.answer)
        /\ notes' = a.notes
        /\ default_params' = defaults_left(Passed(req).params, Passed(req).data).params
        /\ default_data' = defaults_left(Passed(req).params, Passed(req).data).data
        /\ UNCHANGED <<pid, psk, version>>

\* a call whose arguments do not match the method's parameters: Python
\* raises TypeError before the method's body runs
Unbound(c) ==
    /\ call' = c
    /\ request' = NoRequest
    /\ response' = NoResponse
    /\ outcome' = Raise("TypeError", <<>>)
    /\ UNCHANGED <<pid, psk, version, notes, default_params, default_data>>

\* the value a parameter is bound to
Arg(kw, name, default) == IF name \in DOMAIN kw THEN kw[name] ELSE default

get_note(note_id, t) ==
    Exchange([op |-> "get_note", self |-> Self, note_id |-> note_id],
             request_sent("GET", get_note_params(Self, note_id), default_data), t)

\* create_note(self, note_text, password='')
create_note(note_text, kw, t) ==
    LET c == [op |-> "create_note", self |-> Self, note_text |-> note_text, kw |-> kw] IN
    IF DOMAIN kw \subseteq {"password"}
    THEN Exchange(c, request_sent("POST", default_params,
                      create_note_data(Self, note_text, Arg(kw, "password", <<>>))), t)
    ELSE Unbound(c)

\* update_note(self, note_id, new_note_text, password)
update_note(note_id, new_note_text, kw, t) ==
    LET c == [op |-> "update_note", self |-> Self, note_id |-> note_id,
              new_note_text |-> new_note_text, kw |-> kw] IN
    IF DOMAIN kw = {"password"}
    THEN Exchange(c, request_sent("PUT", default_params,
                      update_note_data(Self, note_id, new_note_text, kw.password)), t)
    ELSE Unbound(c)

\* nh.pid = ..., nh.psk = ...: the fields are plain attributes, assigned
\* from outside
AssignPid(p) ==
    /\ pid' = p
    /\ UNCHANGED <<psk, version, call, request, response, outcome, notes,
                   default_params, default_data, calls, sent>>
AssignPsk(k) ==
    /\ psk' = k
    /\ UNCHANGED <<pid, version, call, request, response, outcome, notes,
                   default_params, default_data, calls, sent>>

Calls(t) ==
    \/ \E note_id \in NoteIds : get_note(note_id, t)
    \/ \E note_text \in Texts, p \in PasswordKw, d \in DisplayKw :
          create_note(note_text, p @@ d, t)
    \/ \E note_id \in NoteIds, new_note_text \in Texts, p \in PasswordKw :
          update_note(note_id, new_note_text, p, t)

Assignments ==
    \/ \E p \in Pids : AssignPid(p)
    \/ \E k \in Psks : AssignPsk(k)

\* the client against the stubbed transport
Next == (Calls("stub") /\ UNCHANGED <<calls, sent>>) \/ Assignments
Spec == Init /\ [][Next]_vars

\* the client, constructed with any credentials, against the note service
ServiceNext == Calls("service") /\ UNCHANGED <<calls, sent>>
ServiceSpec == Init /\ [][ServiceNext]_vars

\* a call of an operation as its callers make it: get_note with a note ID,
\* create_note with a text and any of a password, a theme and fonts,
\* update_note with a note ID, a text and a password
CallOfOperation(c) == c.op = "update_note" => "password" \in DOMAIN c.kw

\* the first MaxCalls calls against the stubbed transport, counted together
\* with the HTTP requests they make
CountedCall ==
    /\ calls < MaxCalls
    /\ Calls("stub")
    /\ calls' = IF CallOfOperation(call') THEN calls + 1 ELSE calls
    /\ sent' = IF request' = NoRequest THEN sent ELSE sent + 1

CountNext == CountedCall \/ Assignments
CountSpec == Init /\ [][CountNext]_vars

(***************************************************************************)
(* What a state says about the latest call.                                *)
(***************************************************************************)
\* the call reached _request, which made its HTTP request
Exchanged == request # NoRequest

\* the transport returned a response with status 200 whose body decodes
Decoded200 ==
    /\ Exchanged
    /\ response.kind = "http"
    /\ response.status_code = 200
    /\ response.body.decodes

\* a decoded body with the expected status substructure
HasStatus(j) ==
    /\ j.t = "obj"
    /\ "status" \in DOMAIN j.v
    /\ j.v.status.t = "obj"
    /\ {"success", "message"} \subseteq DOMAIN j.v.status.v

RaisedNotehubError == outcome.kind = "raise" /\ outcome.exc = "NotehubError"

DisplayOptions == {"theme", "text_font", "header_font"}

(***************************************************************************)
(* C1.  Every failing exchange is reported as NotehubError and as nothing  *)
(* else: when the transport fails, the status is not 200, the body does    *)
(* not decode, the decoded body lacks the status substructure (no status   *)
(* key, a status that is not a mapping, no success or no message key) or   *)
(* the status indicates failure, the call raises NotehubError, and no      *)
(* other exception escapes an exchange.                                    *)
(***************************************************************************)
FailingExchange ==
    /\ Exchanged
    /\ \/ response.kind = "ioerror"
       \/ response.status_code # 200
       \/ ~ response.body.decodes
       \/ ~ HasStatus(response.body.json)
       \/ response.body.json.v.status.v.success # JBool(TRUE)

C1_FailuresRaiseOnlyNotehubError ==
    /\ FailingExchange => RaisedNotehubError
    /\ Exchanged /\ outcome.kind = "raise" => outcome.exc = "NotehubError"

(***************************************************************************)
(* C2.  When the status is 200 and the decoded body's status.success is    *)
(* true, the call returns the decoded body without its status key and with *)
(* every other key and value unchanged.                                    *)
(***************************************************************************)
SuccessfulExchange ==
    /\ Decoded200
    /\ response.body.json.t = "obj"
    /\ "status" \in DOMAIN response.body.json.v
    /\ response.body.json.v.status.t = "obj"
    /\ "success" \in DOMAIN response.body.json.v.status.v
    /\ response.body.json.v.status.v.success = JBool(TRUE)

C2_SuccessReturnsBodyWithoutStatus ==
    SuccessfulExchange =>
        /\ outcome.kind = "return"
        /\ outcome.value.t = "obj"
        /\ DOMAIN outcome.value.v = (DOMAIN response.body.json.v) \ {"status"}
        /\ \A k \in DOMAIN outcome.value.v : outcome.value.v[k] = response.body.json.v[k]

C2_Witness ==
    /\ SuccessfulExchange
    /\ call.op = "update_note"
    /\ outcome.kind = "return"
    /\ "longURL" \in DOMAIN outcome.value.v

(***************************************************************************)
(* C3.  When a 200 response decodes to a body whose status.success is      *)
(* false with a message m, the NotehubError raised carries m.              *)
(***************************************************************************)
FailureStatus ==
    /\ Decoded200
    /\ HasStatus(response.body.json)
    /\ response.body.json.v.status.v.success = JBool(FALSE)
    /\ response.body.json.v.status.v.message.t = "str"

ServiceMessage == response.body.json.v.status.v.message.v

\* as claimed: the error's message equals m
C3_MessageIsServiceMessage ==
    FailureStatus => RaisedNotehubError /\ outcome.msg = ServiceMessage

\* as amended: the error's message is 'Non successful status: ' followed by m
C3_MessageIsPrefixThenServiceMessage ==
    FailureStatus =>
        /\ RaisedNotehubError
        /\ outcome.msg = NonSuccessPrefix \o ServiceMessage
        /\ Contains(outcome.msg, ServiceMessage)

C3_Witness ==
    /\ FailureStatus
    /\ ServiceMessage = BadNoteID
    /\ call.op = "get_note"
    /\ RaisedNotehubError

(***************************************************************************)
(* C4.  A response with a status other than 200 raises NotehubError with   *)
(* the status code in its message, whatever the body: a well-formed        *)
(* success body or an undecodable one makes no difference.                 *)
(***************************************************************************)
Non200 == Exchanged /\ response.kind = "http" /\ response.status_code # 200

C4_Non200RaisesWithStatusCode ==
    Non200 => RaisedNotehubError /\ Contains(outcome.msg, str(response.status_code))

C4_Witness ==
    /\ Non200
    /\ response.body = SuccessBody
    /\ RaisedNotehubError
    /\ Contains(outcome.msg, <<"4", "0", "4">>)

(***************************************************************************)
(* What the latest call was given.                                         *)
(***************************************************************************)
\* the password a call supplied, or the empty default of create_note
GivenPassword == Arg(call.kw, "password", <<>>)

\* a create_note call given no display options
PlainCreate == call.op = "create_note" /\ DOMAIN call.kw \subseteq {"password"}

(***************************************************************************)
(* C5.  Every request create_note sends carries signature =                *)
(* hex(MD5(pid + psk + text)) for the pid and psk the instance holds when  *)
(* the call is made, and pid = that pid; the password plays no part.       *)
(***************************************************************************)
C5_CreateSignature ==
    call.op = "create_note" /\ Exchanged =>
        /\ request.data.signature =
             hexdigest(md5(encode(call.self.pid \o call.self.psk \o call.note_text)))
        /\ request.data.pid = call.self.pid

C5_Witness ==
    /\ call.op = "create_note"
    /\ Exchanged
    /\ call.self.pid = <<"p", "k">>
    /\ call.self.psk = <<"k">>
    /\ call.note_text # <<>>
    /\ GivenPassword # <<>>

(***************************************************************************)
(* C6.  Every request update_note sends carries a signature that is the    *)
(* digest of the note ID, the new text and the encoded password, in that   *)
(* order.                                                                  *)
(***************************************************************************)
\* as claimed: nothing else is in the digest's input
C6_UpdateSignatureOfNoteOnly ==
    call.op = "update_note" /\ Exchanged =>
        request.data.signature =
            md5hex(call.note_id \o call.new_note_text \o md5hex(GivenPassword))

\* as amended: the publisher ID and the secret key come first, as in
\* every signature of the wrapper
C6_UpdateSignature ==
    call.op = "update_note" /\ Exchanged =>
        request.data.signature =
            md5hex(call.self.pid \o call.self.psk \o call.note_id
                     \o call.new_note_text \o md5hex(GivenPassword))

C6_Witness ==
    /\ call.op = "update_note"
    /\ Exchanged
    /\ call.new_note_text # <<>>
    /\ GivenPassword # <<>>
    /\ call.self.psk # <<>>

(***************************************************************************)
(* C7.  No request carries a password as given: create_note with a         *)
(* password and update_note send hex(MD5(password)) in the password field, *)
(* never the password itself, and every other field is the note, the note  *)
(* ID, the credentials, the version or a digest; create_note without a     *)
(* password sends no password field.                                       *)
(***************************************************************************)
C7_PasswordIsHashed ==
    /\ PlainCreate /\ Exchanged /\ GivenPassword # <<>> =>
          /\ DOMAIN request.data = {"note", "pid", "signature", "version", "password"}
          /\ request.data.password = md5hex(GivenPassword)
          /\ request.data.password # GivenPassword
          /\ request.data.note = call.note_text
          /\ request.data.pid = call.self.pid
          /\ request.data.version = call.self.version
          /\ request.data.signature =
               md5hex(call.self.pid \o call.self.psk \o call.note_text)
    /\ call.op = "update_note" /\ Exchanged =>
          /\ DOMAIN request.data = {"noteId", "note", "pid", "signature", "version", "password"}
          /\ request.data.password = md5hex(GivenPassword)
          /\ request.data.password # GivenPassword
          /\ request.data.noteId = call.note_id
          /\ request.data.note = call.new_note_text
          /\ request.data.pid = call.self.pid
          /\ request.data.version = call.self.version
          /\ request.data.signature =
               md5hex(call.self.pid \o call.self.psk \o call.note_id
                        \o call.new_note_text \o request.data.password)
    /\ PlainCreate /\ Exchanged /\ "password" \notin DOMAIN call.kw =>
          "password" \notin DOMAIN request.data

C7_Witness ==
    /\ PlainCreate
    /\ Exchanged
    /\ GivenPassword = <<"s">>
    /\ request.data.password = md5hex(<<"s">>)

(***************************************************************************)
(* C8.  create_note accepts a theme, a text font and a header font, and    *)
(* sends each one supplied as a further field of its POST request, next to *)
(* note, pid, signature and version; on a 200 success response the call    *)
(* returns the response mapping without its status.                        *)
(***************************************************************************)
C8_DisplayOptionsAreSent ==
    call.op = "create_note" /\ DOMAIN call.kw \cap DisplayOptions # {} =>
        /\ request.method = "POST"
        /\ {"note", "pid", "signature", "version"} \subseteq DOMAIN request.data
        /\ \A o \in DOMAIN call.kw \cap DisplayOptions :
              \E field \in DOMAIN request.data : request.data[field] = call.kw[o]
        /\ SuccessfulExchange => outcome.kind = "return"

(***************************************************************************)
(* C9.  create_note takes a missing or empty password as no password and   *)
(* sends its request without a password field; update_note sends no PUT    *)
(* request for a call whose password is empty.                             *)
(***************************************************************************)
CreateWithoutPassword ==
    PlainCreate /\ GivenPassword = <<>> =>
        /\ request.method = "POST"
        /\ "password" \notin DOMAIN request.data

UpdateWithEmptyPassword ==
    /\ call.op = "update_note"
    /\ "password" \in DOMAIN call.kw
    /\ call.kw.password = <<>>

\* as claimed
C9_NoUpdateWithEmptyPassword ==
    /\ CreateWithoutPassword
    /\ UpdateWithEmptyPassword => ~ Exchanged

\* as amended: update_note needs the password argument but takes an empty
\* one, and sends its digest
C9_UpdateSendsEmptyPasswordDigest ==
    /\ CreateWithoutPassword
    /\ UpdateWithEmptyPassword =>
          /\ request.method = "PUT"
          /\ request.data.password = md5hex(<<>>)
    /\ call.op = "update_note" /\ "password" \notin DOMAIN call.kw =>
          /\ ~ Exchanged
          /\ outcome = Raise("TypeError", <<>>)

C9_Witness ==
    /\ UpdateWithEmptyPassword
    /\ request.method = "PUT"
    /\ outcome.kind = "return"

(***************************************************************************)
(* C10.  Against the note service, create_note(t) followed by get_note on  *)
(* the noteID it returned yields a result whose note is t, whatever calls  *)
(* came before.                                                            *)
(***************************************************************************)
C10_RoundTrip ==
    [][(/\ call.op = "create_note"
        /\ outcome.kind = "return"
        /\ "noteID" \in DOMAIN outcome.value.v
        /\ call'.op = "get_note"
        /\ JStr(call'.note_id) = outcome.value.v.noteID)
       => (/\ outcome'.kind = "return"
           /\ "note" \in DOMAIN outcome'.value.v
           /\ outcome'.value.v.note = JStr(call.note_text))]_vars

\* a note that was created with a text is retrieved with that text
C10_Witness ==
    /\ call.op = "get_note"
    /\ outcome.kind = "return"
    /\ call.note_id \in DOMAIN notes
    /\ outcome.value.v.note = JStr(notes[call.note_id].note)
    /\ notes[call.note_id].note # <<>>

(***************************************************************************)
(* C11.  Each call of get_note, create_note or update_note makes exactly   *)
(* one HTTP request, to the one endpoint and with the verb of its          *)
(* operation, whatever the outcome: across the calls made, the number of   *)
(* requests sent equals the number of calls.                               *)
(***************************************************************************)
Verb(op) ==
    CASE op = "get_note" -> "GET"
      [] op = "create_note" -> "POST"
      [] op = "update_note" -> "PUT"

C11_OneRequestPerCall ==
    /\ sent = calls
    /\ call.op # "none" /\ CallOfOperation(call) =>
          /\ request.method = Verb(call.op)
          /\ request.url = BASE_URL

\* a call whose arguments the method's parameter list takes
BoundCall ==
    \/ call.op = "get_note"
    \/ call.op = "create_note" /\ DOMAIN call.kw \subseteq {"password"}
    \/ call.op = "update_note" /\ DOMAIN call.kw = {"password"}

\* such a call does make one request, with its verb, and ends
OneRequestPerBoundCall ==
    BoundCall =>
        /\ request.method = Verb(call.op)
        /\ request.url = BASE_URL
        /\ response # NoResponse
        /\ outcome.kind \in {"return", "raise"}

(***************************************************************************)
(* C12.  A call leaves no state behind on the client: it changes none of   *)
(* pid, psk and version, it leaves the default mappings of _request empty, *)
(* and the request it sends is a function of its arguments and of the      *)
(* instance's fields at the call alone, so that no field of an earlier     *)
(* request (a password, say) shows in it.                                  *)
(***************************************************************************)
\* the request of a call, from its arguments and the instance's fields
RequestFor(c) ==
    CASE c.op = "get_note" ->
            [method |-> "GET", url |-> BASE_URL,
             params |-> [noteID |-> c.note_id, version |-> c.self.version]]
      [] c.op = "create_note" ->
            [method |-> "POST", url |-> BASE_URL,
             data |->
                (IF Arg(c.kw, "password", <<>>) # <<>>
                 THEN [password |-> md5hex(c.kw.password)] ELSE NoKw)
                @@ [note |-> c.note_text,
                    pid |-> c.self.pid,
                    signature |-> md5hex(c.self.pid \o c.self.psk \o c.note_text),
                    version |-> c.self.version]]
      [] c.op = "update_note" ->
            [method |-> "PUT", url |-> BASE_URL,
             data |->
                [noteId |-> c.note_id,
                 note |-> c.new_note_text,
                 pid |-> c.self.pid,
                 signature |-> md5hex(c.self.pid \o c.self.psk \o c.note_id
                                        \o c.new_note_text \o md5hex(c.kw.password)),
                 password |-> md5hex(c.kw.password),
                 version |-> c.self.version]]

\* a step in which a method is called
CallStep == <<call, request, response, outcome>>' # <<call, request, response, outcome>>

C12_CallsLeaveNoState ==
    /\ [](/\ default_params = NoKw
          /\ default_data = NoKw
          /\ request # NoRequest => request = RequestFor(call))
    /\ [][CallStep =>
             /\ pid' = pid /\ psk' = psk /\ version' = version
             /\ call'.self = [pid |-> pid, psk |-> psk, version |-> version]]_vars

\* a create_note without a password was answered with a failure: its
\* request has no password field and nothing is left in the default mappings
C12_Witness ==
    /\ call.op = "create_note"
    /\ "password" \notin DOMAIN call.kw
    /\ Exchanged
    /\ "password" \notin DOMAIN request.data
    /\ outcome.kind = "raise"
    /\ default_params = NoKw
    /\ default_data = NoKw
    /\ Self = call.self

====
